---- MODULE Spec2Model ----
(***************************************************************************)
(* Model of the inference adapter layer of the heart-disease prediction    *)
(* service: models.py (FEATURE_COLUMNS, the shared StandardScaler, class   *)
(* Model with _scale / predict / predict_proba / predict_with_details, the *)
(* MODELS registry) and main.py (HeartFeatures, PredictRequest,            *)
(* _format_prediction_detail and the POST /predictions handler).           *)
(*                                                                         *)
(* Python values are records [k, v]: k is the kind of the value and v its  *)
(* number (0 where the kind carries none).  Numbers are small integers;    *)
(* probabilities are percentages.                                          *)
(***************************************************************************)
EXTENDS Integers, Sequences, FiniteSets, TLC

VARIABLES
  FEATURE_COLUMNS,  \* models.py:16  the module-level list of feature names
  scaler,           \* models.py:55  the module-level fitted StandardScaler
  adapters,         \* the Model objects built at import (models.py:152-181) and by callers
  MODELS,           \* models.py:152 the registry: references to Model objects, in order
  call,             \* the call a sequential caller has made, with its outcome
  th                \* the concurrent callers: position and local data of each

vars == <<FEATURE_COLUMNS, scaler, adapters, MODELS, call, th>>

shared == <<FEATURE_COLUMNS, scaler, adapters, MODELS>>

----------------------------------------------------------------------------
(* Bounds of the model. *)

MaxRows == 2

MaxNum == 2

NThreads == 2

----------------------------------------------------------------------------
(* Python values. *)

Num(n) == [k |-> "num", v |-> n]

\* The string str(n), for instance "2": float("2") succeeds.
NumStr(n) == [k |-> "numstr", v |-> n]

\* A string that is no number, for instance "abc".
BadStr == [k |-> "str", v |-> 0]

None == [k |-> "none", v |-> 0]

\* A nested list, for instance [1, 2].
ListVal == [k |-> "list", v |-> 0]

\* A nested dict, for instance {"a": 1}.
DictVal == [k |-> "dict", v |-> 0]

\* float("inf").
Inf == [k |-> "inf", v |-> 0]

\* float("nan"): what pandas puts in a cell no record gives a value for.
NaN == [k |-> "nan", v |-> 0]

\* A numpy scalar (np.int64, np.float64) and a plain Python scalar.
Np(n) == [k |-> "np", v |-> n]

Py(n) == [k |-> "py", v |-> n]

\* x.item() if isinstance(x, np.generic) else x        (models.py:100, 108)
Item(x) == IF x.k = "np" THEN Py(x.v) ELSE x

\* str() of a small non-negative integer scalar.
Str(x) ==
  CASE x.v = 0 -> "0"
    [] x.v = 1 -> "1"
    [] x.v = 2 -> "2"
    [] OTHER -> "n"

Range(s) == {s[i] : i \in DOMAIN s}

SeqsUpTo(S, lo, hi) == UNION {[1..n -> S] : n \in lo..hi}

----------------------------------------------------------------------------
(* The Feature Schema and the raw inputs a caller can pass. *)

FeatureSchema ==
  <<"age", "sex", "cp", "thalach", "exang", "oldpeak", "slope", "ca", "thal">>

FeatureSet == Range(FeatureSchema)

\* A mapping with every schema feature: "age" is x, the others are 1.
FullRow(x) == [f \in FeatureSet |-> IF f = "age" THEN x ELSE Num(1)]

Without(m, S) == [f \in (DOMAIN m) \ S |-> m[f]]

\* The mapping m with the key "note", which is no schema feature.
WithExtra(m, x) == [f \in (DOMAIN m) \cup {"note"} |-> IF f = "note" THEN x ELSE m[f]]

AbsentSets ==
  {{"age"}, {"cp", "thal"}, FeatureSet \ {"age", "sex"}, FeatureSet}

ScalarValues == {Num(n) : n \in 0..MaxNum} \cup {NumStr(2), BadStr, None, Inf}

ScalarMappings ==
  {FullRow(x) : x \in ScalarValues}
    \cup {Without(FullRow(Num(1)), S) : S \in AbsentSets}
    \cup {WithExtra(FullRow(Num(1)), BadStr)}

Mappings == ScalarMappings \cup {FullRow(ListVal), FullRow(DictVal)}

\* A row of a raw numeric matrix: w numbers, the first one n.
MatrixRow(n, w) == [i \in 1..w |-> IF i = 1 THEN Num(n) ELSE Num(1)]

MatrixRows ==
  {MatrixRow(n, w) : n \in 0..MaxNum, w \in {Len(FeatureSchema) - 1, Len(FeatureSchema)}}

\* The three shapes of raw input: a single mapping, a list of mappings (the
\* empty list included) and a list of numeric rows.
RawInputs ==
  {[shape |-> "mapping", rows |-> <<m>>] : m \in ScalarMappings}
    \cup {[shape |-> "records", rows |-> s] : s \in SeqsUpTo(Mappings, 0, MaxRows)}
    \cup {[shape |-> "matrix", rows |-> s] : s \in SeqsUpTo(MatrixRows, 1, MaxRows)}

----------------------------------------------------------------------------
(* Outcomes of a call. *)

Ok(val) ==
  [status |-> "ok", exc |-> "", msg |-> "", names |-> <<>>, val |-> val]

Raise(exc, msg, names) ==
  [status |-> "error", exc |-> exc, msg |-> msg, names |-> names, val |-> <<>>]

\* The value None as the result of a call.
ReturnNone ==
  [status |-> "none", exc |-> "", msg |-> "", names |-> <<>>, val |-> <<>>]

----------------------------------------------------------------------------
(* pandas: pd.DataFrame(records) and frame[FEATURE_COLUMNS].astype(float). *)

\* `not records`: an empty list and an empty dict are falsy.
IsEmpty(raw) ==
  IF raw.shape = "mapping" THEN DOMAIN raw.rows[1] = {} ELSE raw.rows = <<>>

\* pd.DataFrame of a list of dicts: one row per dict and one column per key
\* that occurs in any of them; a cell no dict gives is NaN.
RecordsFrame(rows) ==
  LET cols == UNION {DOMAIN rows[i] : i \in DOMAIN rows}
  IN [status |-> "ok", columns |-> cols,
      rows |-> [i \in DOMAIN rows |->
                 [c \in cols |-> IF c \in DOMAIN rows[i] THEN rows[i][c] ELSE NaN]]]

\* A frame builder that wraps a single mapping as a list of one record.
DataFrameOfMapping(raw) ==
  IF raw.shape = "matrix"
  THEN [status |-> "ok", columns |-> {}, rows |-> raw.rows]
  ELSE RecordsFrame(raw.rows)

\* A frame builder that names the columns of a list of lists after the
\* Feature Schema, by position.
DataFrameByPosition(raw) ==
  IF raw.shape = "mapping"
  THEN [status |-> "error", columns |-> {}, rows |-> <<>>]
  ELSE IF raw.shape = "records" THEN RecordsFrame(raw.rows)
  ELSE RecordsFrame([i \in DOMAIN raw.rows |->
         [f \in {FeatureSchema[j] : j \in DOMAIN raw.rows[i] \cap DOMAIN FeatureSchema} |->
            raw.rows[i][CHOOSE j \in DOMAIN FeatureSchema : FeatureSchema[j] = f]]])

\* pd.DataFrame(records).  A list of lists gives integer column labels
\* 0..w-1, so no column has a name.  A dict of scalars is refused:
\* ValueError("If using all scalar values, you must pass an index").
DataFrame(raw) ==
  IF raw.shape = "mapping"
  THEN [status |-> "error", columns |-> {}, rows |-> <<>>]
  ELSE IF raw.shape = "records" THEN RecordsFrame(raw.rows)
  ELSE [status |-> "ok", columns |-> {}, rows |-> raw.rows]

\* What float conversion of one cell raises ("" when it succeeds).  None
\* becomes NaN without an error; a dict raises TypeError, which is no
\* ValueError.
CellExc(x) ==
  CASE x.k \in {"str", "list"} -> "ValueError"
    [] x.k = "dict" -> "TypeError"
    [] OTHER -> ""

Float(n) == [k |-> "float", v |-> n]

ToFloat(x) ==
  CASE x.k \in {"num", "numstr"} -> Float(x.v)
    [] x.k = "inf" -> Inf
    [] OTHER -> NaN

\* The exception of frame[cols].astype(float): the cells are converted
\* column by column, and the first cell that fails decides.
AstypeExc(frame, cols) ==
  LET n == Len(frame.rows)
      cell(p) == frame.rows[((p - 1) % n) + 1][cols[((p - 1) \div n) + 1]]
      bad == {p \in 1..(n * Len(cols)) : CellExc(cell(p)) # ""}
  IN IF bad = {} THEN ""
     ELSE CellExc(cell(CHOOSE p \in bad : \A q \in bad : p <= q))

\* frame[cols].astype(float) when no cell fails: the Normalized Matrix.
AstypeFloat(frame, cols) ==
  [i \in DOMAIN frame.rows |-> [j \in DOMAIN cols |-> ToFloat(frame.rows[i][cols[j]])]]

----------------------------------------------------------------------------
(* sklearn: the fitted StandardScaler and the fitted classifiers.  The     *)
(* learned numbers are not in the source; small values stand for them.     *)

\* scaler = StandardScaler(); scaler.fit_transform(X_train_handled)
FittedScaler ==
  [mean_ |-> [j \in DOMAIN FeatureSchema |-> 1],
   scale_ |-> [j \in DOMAIN FeatureSchema |-> 1]]

HasInf(M) == \E i \in DOMAIN M : \E j \in DOMAIN M[i] : M[i][j].k = "inf"

HasNaN(M) == \E i \in DOMAIN M : \E j \in DOMAIN M[i] : M[i][j].k = "nan"

\* scaler.transform(numeric): NaN passes through, infinity is refused with
\* ValueError("Input X contains infinity ...").
Transform(sc, numeric) ==
  IF HasInf(numeric)
  THEN Raise("ValueError", "Input X contains infinity or a value too large for dtype('float64').", <<>>)
  ELSE Ok([i \in DOMAIN numeric |->
            [j \in DOMAIN numeric[i] |->
               IF numeric[i][j].k = "nan" THEN NaN
               ELSE Float((numeric[i][j].v - sc.mean_[j]) \div sc.scale_[j])]])

RECURSIVE ColumnSum(_, _, _)
ColumnSum(M, j, i) ==
  IF i = 0 THEN 0
  ELSE (IF M[i][j].k = "float" THEN M[i][j].v ELSE 0) + ColumnSum(M, j, i - 1)

\* The scaler after a call of fit_transform(numeric): refitted to numeric.
FitTransformState(sc, numeric) ==
  [sc EXCEPT !.mean_ = [j \in DOMAIN sc.mean_ |->
                          ColumnSum(numeric, j, Len(numeric)) \div Len(numeric)]]

\* The scaler after a call of transform(numeric): transform only reads it.
TransformState(sc, numeric) == sc

RECURSIVE Score(_, _)
Score(row, j) ==
  IF j = 0 THEN 0
  ELSE (IF row[j].k = "float" THEN row[j].v ELSE 0) + Score(row, j - 1)

Clamp(x) == IF x < 0 THEN 0 ELSE IF x > 100 THEN 100 ELSE x

\* The probability (in percent) a fitted classifier gives the second class.
Positive(clf, row) == Clamp(50 + 25 * (Score(row, Len(row)) - clf.threshold))

\* clf.predict(X): one label per row, in row order; a classifier that does
\* not accept missing values raises ValueError("Input X contains NaN.").
ClassifierPredict(clf, X) ==
  IF HasNaN(X) /\ ~clf.allow_nan
  THEN Raise("ValueError", "Input X contains NaN.", <<>>)
  ELSE Ok([i \in DOMAIN X |->
            clf.classes_[IF Positive(clf, X[i]) >= 50 THEN 2 ELSE 1]])

\* clf.predict_proba(X): one vector per row, one column per class of classes_.
ClassifierPredictProba(clf, X) ==
  IF HasNaN(X) /\ ~clf.allow_nan
  THEN Raise("ValueError", "Input X contains NaN.", <<>>)
  ELSE Ok([i \in DOMAIN X |->
            <<Np(100 - Positive(clf, X[i])), Np(Positive(clf, X[i]))>>])

\* The classifier after a call that refits it to the batch.
RefitState(clf, X) == [clf EXCEPT !.threshold = Score(X[1], Len(X[1]))]

\* The classifier after predict / predict_proba: both only read it.
ClassifierState(clf, X) == clf

\* knn, stacking_model, logistic, dec_tree.  Whether the fitted tree takes
\* NaN at predict time depends on the scikit-learn release.
knn ==
  [kind |-> "KNeighborsClassifier", proba |-> TRUE, classes_ |-> <<Np(0), Np(1)>>,
   threshold |-> 0, allow_nan |-> FALSE]

dec_tree(nan) ==
  [kind |-> "DecisionTreeClassifier", proba |-> TRUE, classes_ |-> <<Np(0), Np(1)>>,
   threshold |-> 1, allow_nan |-> nan]

logistic ==
  [kind |-> "LogisticRegression", proba |-> TRUE, classes_ |-> <<Np(0), Np(1)>>,
   threshold |-> 0, allow_nan |-> FALSE]

stacking_model ==
  [kind |-> "StackingClassifier", proba |-> TRUE, classes_ |-> <<Np(0), Np(1)>>,
   threshold |-> 1, allow_nan |-> FALSE]

\* A classifier without predict_proba and classes_ read: Model takes any model.
label_only ==
  [kind |-> "LabelOnly", proba |-> FALSE, classes_ |-> <<Py(0), Py(1)>>,
   threshold |-> 0, allow_nan |-> FALSE]

\* Model.__init__
Model(name, model, metrics) == [name |-> name, model |-> model, metrics |-> metrics]

\* hasattr(self.model, 'predict_proba')
HasPredictProba(m) == m.model.proba

----------------------------------------------------------------------------
(* class Model: _scale, predict, predict_proba, predict_with_details.      *)
(* Each operator gives the outcome of the call (Ok / Raise / ReturnNone)   *)
(* with what the call did on the way: the Normalized Matrix it built       *)
(* (numeric, <<>> if none), whether scaler.transform was called and how    *)
(* many classifier calls were made.                                        *)

Done(out, numeric, transformed, clfCalls) ==
  [status |-> out.status, exc |-> out.exc, msg |-> out.msg, names |-> out.names,
   val |-> out.val, numeric |-> numeric, transformed |-> transformed,
   clfCalls |-> clfCalls]

\* [column for column in FEATURE_COLUMNS if column not in frame.columns]
Missing(frame, cols) == SelectSeq(cols, LAMBDA c : c \notin frame.columns)

\* Model._scale(records)
Scale(raw, cols, sc) ==
  IF IsEmpty(raw)
  THEN Done(Raise("ValueError", "No input records provided.", <<>>), <<>>, FALSE, 0)
  ELSE LET frame == DataFrame(raw) IN
  IF frame.status = "error"
  THEN Done(Raise("ValueError", "If using all scalar values, you must pass an index", <<>>),
            <<>>, FALSE, 0)
  ELSE IF Missing(frame, cols) # <<>>
  THEN Done(Raise("ValueError", "Missing features", Missing(frame, cols)), <<>>, FALSE, 0)
  ELSE IF AstypeExc(frame, cols) = "ValueError"
  THEN Done(Raise("ValueError", "All feature values must be numeric.", <<>>), <<>>, FALSE, 0)
  ELSE IF AstypeExc(frame, cols) = "TypeError"
  THEN Done(Raise("TypeError", "float() argument must be a string or a real number, not 'dict'", <<>>),
            <<>>, FALSE, 0)
  ELSE LET numeric == AstypeFloat(frame, cols)
       IN Done(Transform(sc, numeric), numeric, TRUE, 0)

\* The shared scaler after _scale(raw).
ScalerAfter(raw, cols, sc) ==
  LET r == Scale(raw, cols, sc)
  IN IF r.transformed THEN TransformState(sc, r.numeric) ELSE sc

\* Model.predict(records)
Predict(m, raw, cols, sc) ==
  LET X == Scale(raw, cols, sc) IN
  IF X.status # "ok" THEN X
  ELSE Done(ClassifierPredict(m.model, X.val), X.numeric, TRUE, 1)

\* Model.predict_proba(records)
PredictProba(m, raw, cols, sc) ==
  IF ~HasPredictProba(m) THEN Done(ReturnNone, <<>>, FALSE, 0)
  ELSE LET X == Scale(raw, cols, sc) IN
       IF X.status # "ok" THEN X
       ELSE Done(ClassifierPredictProba(m.model, X.val), X.numeric, TRUE, 1)

\* {str(classes[j]...): float(prob_value) for j, prob_value in enumerate(probs)}:
\* a later column with the same key replaces an earlier one.
ProbMap(classes, probs) ==
  [key \in {Str(Item(classes[j])) : j \in DOMAIN probs} |->
     probs[CHOOSE j \in DOMAIN probs :
             /\ Str(Item(classes[j])) = key
             /\ \A h \in DOMAIN probs : Str(Item(classes[h])) = key => h <= j].v]

\* The probability of class 0 instead of the maximum.
ConfidenceOfFirstClass(prob_map) ==
  prob_map[CHOOSE key \in DOMAIN prob_map : "0" \in DOMAIN prob_map => key = "0"]

\* max(prob_map.values())
Confidence(prob_map) ==
  CHOOSE p \in {prob_map[key] : key \in DOMAIN prob_map} :
    \A key \in DOMAIN prob_map : prob_map[key] <= p

\* One entry of details                                  (models.py:100-112)
Entry(raw_pred, hasProbs, probs, classes) ==
  IF hasProbs
  THEN [label |-> Item(raw_pred),
        confidence |-> Confidence(ProbMap(classes, probs)),
        probabilities |-> ProbMap(classes, probs)]
  ELSE [label |-> Item(raw_pred)]

\* The loop with one row short.
DetailsButLast(predictions, hasProbs, probabilities, classes) ==
  [i \in 1..(Len(predictions) - 1) |->
     Entry(predictions[i], hasProbs, IF hasProbs THEN probabilities[i] ELSE <<>>, classes)]

\* for index, raw_pred in enumerate(predictions): ... details.append(entry)
Details(predictions, hasProbs, probabilities, classes) ==
  [i \in DOMAIN predictions |->
     Entry(predictions[i], hasProbs, IF hasProbs THEN probabilities[i] ELSE <<>>, classes)]

\* Model.predict_with_details(records)
PredictWithDetails(m, raw, cols, sc) ==
  LET X == Scale(raw, cols, sc) IN
  IF X.status # "ok" THEN X
  ELSE LET predictions == ClassifierPredict(m.model, X.val) IN
  IF predictions.status # "ok" THEN Done(predictions, X.numeric, TRUE, 1)
  ELSE LET probabilities == IF HasPredictProba(m)
                            THEN ClassifierPredictProba(m.model, X.val)
                            ELSE ReturnNone
           classes == IF probabilities.status = "ok" THEN m.model.classes_ ELSE <<>>
           nCalls == IF HasPredictProba(m) THEN 2 ELSE 1
       IN IF probabilities.status = "error"
          THEN Done(probabilities, X.numeric, TRUE, nCalls)
          ELSE Done(Ok(Details(predictions.val, probabilities.status = "ok",
                               probabilities.val, classes)),
                    X.numeric, TRUE, nCalls)

\* The outcome of operation op of adapter m.
Outcome(op, m, raw, cols, sc) ==
  CASE op = "_scale" -> Scale(raw, cols, sc)
    [] op = "predict" -> Predict(m, raw, cols, sc)
    [] op = "predict_proba" -> PredictProba(m, raw, cols, sc)
    [] OTHER -> PredictWithDetails(m, raw, cols, sc)

\* The shared objects (the scaler, the Model objects) after operation op of
\* adapter a: what scaler.transform and the classifier calls leave behind.
Effect(op, a, raw, cols, st) ==
  LET m == st.adapters[a]
      X == Scale(raw, cols, st.scaler)
  IN IF op = "predict_proba" /\ ~HasPredictProba(m) THEN st
     ELSE [scaler |-> ScalerAfter(raw, cols, st.scaler),
           adapters |-> IF X.status = "ok" /\ op # "_scale"
                        THEN [st.adapters EXCEPT ![a].model = ClassifierState(@, X.val)]
                        ELSE st.adapters]

----------------------------------------------------------------------------
(* main.py: the request schema, the formatter and POST /predictions.       *)

\* class HeartFeatures: the type and the ge / le of each field (le = -1: none).
HeartFeatures ==
  [age |-> [float |-> TRUE, ge |-> 0, le |-> -1],
   sex |-> [float |-> FALSE, ge |-> 0, le |-> 1],
   cp |-> [float |-> FALSE, ge |-> 0, le |-> 4],
   thalach |-> [float |-> TRUE, ge |-> 0, le |-> -1],
   exang |-> [float |-> FALSE, ge |-> 0, le |-> 1],
   oldpeak |-> [float |-> TRUE, ge |-> 0, le |-> -1],
   slope |-> [float |-> FALSE, ge |-> 0, le |-> 3],
   ca |-> [float |-> FALSE, ge |-> 0, le |-> 4],
   thal |-> [float |-> FALSE, ge |-> 0, le |-> 7]]

\* pydantic's validation of one field: a number or a numeric string within
\* the range; infinity for a float field without an upper limit.
FieldValid(field, x) ==
  \/ /\ x.k \in {"num", "numstr"}
     /\ x.v >= field.ge
     /\ (field.le < 0 \/ x.v <= field.le)
  \/ /\ x.k = "inf"
     /\ field.float
     /\ field.le < 0

\* class PredictRequest: records: List[HeartFeatures], min_length=1
PredictRequest(rows) ==
  /\ Len(rows) >= 1
  /\ \A i \in DOMAIN rows : \A f \in DOMAIN HeartFeatures :
       f \in DOMAIN rows[i] /\ FieldValid(HeartFeatures[f], rows[i][f])

\* record.model_dump(): the declared fields only, each as a number.
ModelDump(row) ==
  [f \in DOMAIN HeartFeatures |-> IF row[f].k = "numstr" THEN Num(row[f].v) ELSE row[f]]

\* The formatter without its second `if`.
FormatWithoutProbabilities(detail) ==
  [key \in {"label"} \cup ({"confidence"} \cap DOMAIN detail) |-> detail[key]]

\* _format_prediction_detail(detail)
FormatPredictionDetail(detail) ==
  [key \in {"label"} \cup ({"confidence", "probabilities"} \cap DOMAIN detail) |-> detail[key]]

\* The response of POST /predictions: the payload (200), the HTTPException
\* of a ValueError (422) or the server fault of any other exception (500).
Response(status, detail, names, body) ==
  [status |-> status, detail |-> detail, names |-> names, body |-> body]

\* The handler answering with what it has when an adapter raises.
RECURSIVE PartialLoop(_, _, _, _, _, _)
PartialLoop(reg, i, inputs, payload, cols, st) ==
  IF i > Len(reg) THEN Response(200, "", <<>>, payload)
  ELSE LET m == st.adapters[reg[i]]
           details == PredictWithDetails(m, inputs, cols, st.scaler)
       IN IF details.status = "error" THEN Response(200, "", <<>>, payload)
          ELSE PartialLoop(reg, i + 1, inputs,
                 Append(payload, [model |-> m.name, metrics |-> m.metrics,
                                  predictions |-> [j \in DOMAIN details.val |->
                                     FormatPredictionDetail(details.val[j])]]),
                 cols, Effect("predict_with_details", reg[i], inputs, cols, st))

\* for model in MODELS: ... response_payload.append(...), inside try/except
RECURSIVE HandlerLoop(_, _, _, _, _, _)
HandlerLoop(reg, i, inputs, payload, cols, st) ==
  IF i > Len(reg) THEN Response(200, "", <<>>, payload)
  ELSE LET m == st.adapters[reg[i]]
           details == PredictWithDetails(m, inputs, cols, st.scaler)
       IN IF details.status = "error"
          THEN IF details.exc = "ValueError"
               THEN Response(422, details.msg, details.names, <<>>)
               ELSE Response(500, "Internal Server Error", <<>>, <<>>)
          ELSE HandlerLoop(reg, i + 1, inputs,
                 Append(payload, [model |-> m.name, metrics |-> m.metrics,
                                  predictions |-> [j \in DOMAIN details.val |->
                                     FormatPredictionDetail(details.val[j])]]),
                 cols, Effect("predict_with_details", reg[i], inputs, cols, st))

\* The shared objects after the handler's loop.
RECURSIVE HandlerEffect(_, _, _, _, _)
HandlerEffect(reg, i, inputs, cols, st) ==
  IF i > Len(reg) THEN st
  ELSE LET after == Effect("predict_with_details", reg[i], inputs, cols, st)
       IN IF PredictWithDetails(st.adapters[reg[i]], inputs, cols, st.scaler).status = "error"
          THEN after
          ELSE HandlerEffect(reg, i + 1, inputs, cols, after)

\* inputs = [record.model_dump() for record in payload.records]
Inputs(rows) == [shape |-> "records", rows |-> [i \in DOMAIN rows |-> ModelDump(rows[i])]]

\* The handler that returns the entries it has when an adapter raises.
PostPredictionsPartial(reg, rows, cols, st) ==
  PartialLoop(reg, 1, Inputs(rows), <<>>, cols, st)

\* def predict(payload: PredictRequest)
PostPredictionsResponse(reg, rows, cols, st) ==
  HandlerLoop(reg, 1, Inputs(rows), <<>>, cols, st)

----------------------------------------------------------------------------
(* The state after import, and the sequential callers.                     *)

Ops == {"_scale", "predict", "predict_proba", "predict_with_details"}

NoRaw == [shape |-> "none", rows |-> <<>>]

Idle == [op |-> "idle", a |-> 0, raw |-> NoRaw, res |-> Done(ReturnNone, <<>>, FALSE, 0)]

\* The Model objects: the four of MODELS, in registry order, and one a
\* caller built around a label-only classifier.
Objects(nan) ==
  <<Model("KNN", knn, [accuracy |-> 80]),
    Model("Stacking Classifier", stacking_model, [accuracy |-> 85]),
    Model("Logistic Regression", logistic, [accuracy |-> 83]),
    Model("Decision Tree", dec_tree(nan), [accuracy |-> 78]),
    Model("Label Only", label_only, [accuracy |-> 70])>>

ThreadIds == 1..NThreads

ThreadIdle ==
  [pc |-> "idle", op |-> "idle", a |-> 0, raw |-> NoRaw, numeric |-> <<>>, X |-> <<>>,
   predictions |-> <<>>, probabilities |-> ReturnNone,
   out |-> Done(ReturnNone, <<>>, FALSE, 0), alone |-> Done(ReturnNone, <<>>, FALSE, 0)]

Init ==
  /\ FEATURE_COLUMNS = FeatureSchema
  /\ scaler = FittedScaler
  /\ adapters \in {Objects(nan) : nan \in BOOLEAN}
  /\ MODELS = <<1, 2, 3, 4>>
  /\ call = Idle
  /\ th = [t \in ThreadIds |-> ThreadIdle]

State == [scaler |-> scaler, adapters |-> adapters]

\* A caller calls _scale, predict, predict_proba or predict_with_details of
\* an adapter with a raw input.
Call(op, a, raw) ==
  /\ call' = [op |-> op, a |-> a, raw |-> raw,
              res |-> Outcome(op, adapters[a], raw, FEATURE_COLUMNS, scaler)]
  /\ scaler' = Effect(op, a, raw, FEATURE_COLUMNS, State).scaler
  /\ adapters' = Effect(op, a, raw, FEATURE_COLUMNS, State).adapters
  /\ UNCHANGED <<FEATURE_COLUMNS, MODELS, th>>

\* POST /predictions with a body that passes the request schema.
PostPredictions(rows) ==
  /\ PredictRequest(rows)
  /\ call' = [op |-> "POST /predictions", a |-> 0,
              raw |-> [shape |-> "records", rows |-> rows],
              res |-> PostPredictionsResponse(MODELS, rows, FEATURE_COLUMNS, State)]
  /\ scaler' = HandlerEffect(MODELS, 1, Inputs(rows), FEATURE_COLUMNS, State).scaler
  /\ adapters' = HandlerEffect(MODELS, 1, Inputs(rows), FEATURE_COLUMNS, State).adapters
  /\ UNCHANGED <<FEATURE_COLUMNS, MODELS, th>>

\* The caller has its result; the call's data is dropped.
Return ==
  /\ call.op # "idle"
  /\ call' = Idle
  /\ UNCHANGED <<FEATURE_COLUMNS, scaler, adapters, MODELS, th>>

\* One caller at a time: a call is made when the last one has returned.
DirectCall ==
  /\ call.op = "idle"
  /\ \E op \in Ops, a \in DOMAIN adapters, raw \in RawInputs : Call(op, a, raw)

Request ==
  /\ call.op = "idle"
  /\ \E rows \in SeqsUpTo(Mappings, 1, MaxRows) : PostPredictions(rows)

Next ==
  \/ DirectCall
  \/ Request
  \/ Return

Spec == Init /\ [][Next]_vars

----------------------------------------------------------------------------
(* Concurrent callers (FastAPI runs the handlers of `def` routes on a      *)
(* thread pool): each call is a sequence of steps, one per library call,   *)
(* and the steps of different callers interleave.  X_scaled, predictions,  *)
(* probabilities and details are locals of the call.                       *)

ConcOps == {"predict", "predict_proba", "predict_with_details"}

\* The adapters the concurrent callers use: Decision Tree and Label Only.
ConcAdapters == {4, 5}

ConcInputs ==
  {[shape |-> "records", rows |-> <<FullRow(Num(0)), FullRow(Num(2))>>],
   [shape |-> "records", rows |-> <<Without(FullRow(Num(1)), {"age"}), FullRow(None)>>]}

Finished(t, out) == [th EXCEPT ![t].pc = "done", ![t].out = out]

\* The call starts; `alone` is what the call returns when it runs alone on
\* the shared objects as they are now.
Begin(t, op, a, raw) ==
  /\ th[t].pc = "idle"
  /\ th' = [th EXCEPT ![t] =
              [ThreadIdle EXCEPT !.pc = IF op = "predict_proba" THEN "hasattr" ELSE "scale",
                                 !.op = op, !.a = a, !.raw = raw,
                                 !.alone = Outcome(op, adapters[a], raw, FEATURE_COLUMNS, scaler)]]
  /\ UNCHANGED <<FEATURE_COLUMNS, scaler, adapters, MODELS, call>>

\* predict_proba: if not hasattr(self.model, 'predict_proba'): return None
StepHasattr(t) ==
  /\ th[t].pc = "hasattr"
  /\ th' = IF HasPredictProba(adapters[th[t].a])
           THEN [th EXCEPT ![t].pc = "scale"]
           ELSE Finished(t, Done(ReturnNone, <<>>, FALSE, 0))
  /\ UNCHANGED <<FEATURE_COLUMNS, scaler, adapters, MODELS, call>>

\* X_scaled = self._scale(records)
StepScale(t) ==
  /\ th[t].pc = "scale"
  /\ LET X == Scale(th[t].raw, FEATURE_COLUMNS, scaler)
     IN th' = IF X.status # "ok" THEN Finished(t, X)
              ELSE [th EXCEPT ![t].pc = IF th[t].op = "predict_proba" THEN "proba" ELSE "predict",
                              ![t].numeric = X.numeric,
                              ![t].X = X.val]
  /\ scaler' = ScalerAfter(th[t].raw, FEATURE_COLUMNS, scaler)
  /\ UNCHANGED <<FEATURE_COLUMNS, adapters, MODELS, call>>

\* predictions = self.model.predict(X_scaled)
StepPredict(t) ==
  /\ th[t].pc = "predict"
  /\ LET predictions == ClassifierPredict(adapters[th[t].a].model, th[t].X)
     IN th' = IF predictions.status # "ok" \/ th[t].op = "predict"
              THEN Finished(t, Done(predictions, th[t].numeric, TRUE, 1))
              ELSE [th EXCEPT ![t].pc = "proba", ![t].predictions = predictions.val]
  /\ adapters' = [adapters EXCEPT ![th[t].a].model = ClassifierState(@, th[t].X)]
  /\ UNCHANGED <<FEATURE_COLUMNS, scaler, MODELS, call>>

\* probabilities = self.model.predict_proba(X_scaled) if hasattr(...) else None
StepProba(t) ==
  /\ th[t].pc = "proba"
  /\ LET m == adapters[th[t].a]
         probabilities == IF HasPredictProba(m)
                          THEN ClassifierPredictProba(m.model, th[t].X)
                          ELSE ReturnNone
         nCalls == IF th[t].op = "predict_proba" THEN 1
                   ELSE IF HasPredictProba(m) THEN 2 ELSE 1
     IN /\ th' = IF probabilities.status = "error" \/ th[t].op = "predict_proba"
                 THEN Finished(t, Done(probabilities, th[t].numeric, TRUE, nCalls))
                 ELSE [th EXCEPT ![t].pc = "details", ![t].probabilities = probabilities]
        /\ adapters' = IF HasPredictProba(m)
                       THEN [adapters EXCEPT ![th[t].a].model = ClassifierState(@, th[t].X)]
                       ELSE adapters
  /\ UNCHANGED <<FEATURE_COLUMNS, scaler, MODELS, call>>

\* classes = ...; details = []; for ...: details.append(entry); return details
StepDetails(t) ==
  /\ th[t].pc = "details"
  /\ LET m == adapters[th[t].a]
         hasProbs == th[t].probabilities.status = "ok"
         classes == IF hasProbs THEN m.model.classes_ ELSE <<>>
     IN th' = Finished(t, Done(Ok(Details(th[t].predictions, hasProbs,
                                          th[t].probabilities.val, classes)),
                               th[t].numeric, TRUE, IF HasPredictProba(m) THEN 2 ELSE 1))
  /\ UNCHANGED <<FEATURE_COLUMNS, scaler, adapters, MODELS, call>>

\* The caller has its result; the call's locals are dropped.
Finish(t) ==
  /\ th[t].pc = "done"
  /\ th' = [th EXCEPT ![t] = ThreadIdle]
  /\ UNCHANGED <<FEATURE_COLUMNS, scaler, adapters, MODELS, call>>

ConcNext ==
  \E t \in ThreadIds :
    \/ \E op \in ConcOps, a \in ConcAdapters, raw \in ConcInputs : Begin(t, op, a, raw)
    \/ StepHasattr(t)
    \/ StepScale(t)
    \/ StepPredict(t)
    \/ StepProba(t)
    \/ StepDetails(t)
    \/ Finish(t)

ConcSpec == Init /\ [][ConcNext]_vars

----------------------------------------------------------------------------
(* Properties.                                                             *)

Scales(op) == op \in {"_scale", "predict", "predict_with_details"}

\* The mapping carries every schema feature.
Complete(m) == FeatureSet \subseteq DOMAIN m

\* The mapping carries every schema feature with a value float() converts
\* to a finite number.
FullNumeric(m) == Complete(m) /\ \A f \in FeatureSet : m[f].k \in {"num", "numstr"}

ValidRecords(raw) ==
  /\ raw.shape = "records"
  /\ Len(raw.rows) >= 1
  /\ \A i \in DOMAIN raw.rows : FullNumeric(raw.rows[i])

\* The standardized row of one mapping, scaled on its own.
RowX(m) == Scale([shape |-> "records", rows |-> <<m>>], FEATURE_COLUMNS, scaler).val

\* C1: for a valid input of n >= 1 records, predict_with_details returns
\* exactly n details, and detail i holds the label (and, for a
\* probability-capable classifier, the probability vector) the classifier
\* gives for input row i.
C1_RowForRow ==
  (call.op = "predict_with_details" /\ ValidRecords(call.raw)) =>
    LET clf == adapters[call.a].model IN
    /\ call.res.status = "ok"
    /\ Len(call.res.val) = Len(call.raw.rows)
    /\ \A i \in DOMAIN call.raw.rows :
         /\ i \in DOMAIN call.res.val
         /\ call.res.val[i].label
              = Item(ClassifierPredict(clf, RowX(call.raw.rows[i])).val[1])
         /\ clf.proba =>
              call.res.val[i].probabilities
                = ProbMap(clf.classes_,
                          ClassifierPredictProba(clf, RowX(call.raw.rows[i])).val[1])

\* C1 witness: a two-row call whose rows get different labels.
C1_Witness ==
  /\ call.op = "predict_with_details"
  /\ ValidRecords(call.raw)
  /\ Len(call.raw.rows) = 2
  /\ call.res.status = "ok"
  /\ Len(call.res.val) = 2
  /\ call.res.val[1].label # call.res.val[2].label

AbsentOf(m) == SelectSeq(FeatureSchema, LAMBDA f : f \notin DOMAIN m)

\* C2: in a non-empty list of mappings each mapping is checked on its own:
\* when a mapping lacks schema features the call fails with Missing
\* features, naming the absent names in schema order, and neither
\* scaler.transform nor a classifier is called.
C2_EachMappingChecked ==
  (/\ Scales(call.op)
   /\ call.raw.shape = "records"
   /\ \E i \in DOMAIN call.raw.rows : ~Complete(call.raw.rows[i])) =>
    /\ call.res.status = "error"
    /\ call.res.msg = "Missing features"
    /\ \/ \E i \in DOMAIN call.raw.rows :
            ~Complete(call.raw.rows[i]) /\ call.res.names = AbsentOf(call.raw.rows[i])
       \/ call.res.names
            = SelectSeq(FeatureSchema,
                        LAMBDA f : \E i \in DOMAIN call.raw.rows : f \notin DOMAIN call.raw.rows[i])
    /\ ~call.res.transformed
    /\ call.res.clfCalls = 0

NotCoercible(x) == x.k \in {"str", "none", "list", "dict"}

\* C3: when the records carry all schema features and a schema feature
\* value cannot be made a float (a non-numeric string, None, a nested
\* container) the call fails with "All feature values must be numeric." and
\* builds no matrix and no prediction; a non-numeric value under another
\* key does not make the call fail that way.
C3_NonNumericRejected ==
  (/\ Scales(call.op)
   /\ call.raw.shape = "records"
   /\ call.raw.rows # <<>>
   /\ \A i \in DOMAIN call.raw.rows : Complete(call.raw.rows[i])) =>
    IF \E i \in DOMAIN call.raw.rows : \E f \in FeatureSet : NotCoercible(call.raw.rows[i][f])
    THEN /\ call.res.status = "error"
         /\ call.res.msg = "All feature values must be numeric."
         /\ call.res.numeric = <<>>
         /\ call.res.clfCalls = 0
    ELSE call.res.msg # "All feature values must be numeric."

\* C4: the details of predict_with_details hold confidence and
\* probabilities exactly when the classifier has predict_proba; a
\* label-only classifier does not make the call raise and its details hold
\* the label only; _format_prediction_detail keeps the fields as they are.
C4_FieldsIffCapable ==
  /\ (call.op = "predict_with_details" /\ call.res.status = "ok") =>
       \A i \in DOMAIN call.res.val :
         /\ DOMAIN call.res.val[i]
              = IF HasPredictProba(adapters[call.a])
                THEN {"label", "confidence", "probabilities"} ELSE {"label"}
         /\ FormatPredictionDetail(call.res.val[i]) = call.res.val[i]
  /\ (/\ call.op = "predict_with_details"
      /\ ValidRecords(call.raw)
      /\ ~HasPredictProba(adapters[call.a])) => call.res.status = "ok"
  /\ (call.op = "POST /predictions" /\ call.res.status = 200) =>
       \A i \in DOMAIN call.res.body : \A j \in DOMAIN call.res.body[i].predictions :
         DOMAIN call.res.body[i].predictions[j]
           = IF HasPredictProba(adapters[MODELS[i]])
             THEN {"label", "confidence", "probabilities"} ELSE {"label"}

\* C4 witness: a label-only adapter has answered predict_with_details.
C4_Witness ==
  /\ call.op = "predict_with_details"
  /\ ~HasPredictProba(adapters[call.a])
  /\ call.res.status = "ok"
  /\ Len(call.res.val) >= 1
  /\ DOMAIN call.res.val[1] = {"label"}

\* C5: for a probability-capable adapter the keys of probabilities are the
\* stringified class labels, each bound to the probability column of its
\* class, and confidence is the maximum of the values.
C5_KeysAndConfidence ==
  (/\ call.op = "predict_with_details"
   /\ call.res.status = "ok"
   /\ HasPredictProba(adapters[call.a])) =>
    LET clf == adapters[call.a].model
        probs == ClassifierPredictProba(
                   clf, Scale(call.raw, FEATURE_COLUMNS, scaler).val).val
    IN \A i \in DOMAIN call.res.val :
         LET d == call.res.val[i] IN
         /\ DOMAIN d.probabilities = {Str(Item(clf.classes_[j])) : j \in DOMAIN clf.classes_}
         /\ \A j \in DOMAIN clf.classes_ :
              d.probabilities[Str(Item(clf.classes_[j]))] = probs[i][j].v
         /\ \E key \in DOMAIN d.probabilities : d.confidence = d.probabilities[key]
         /\ \A key \in DOMAIN d.probabilities : d.probabilities[key] <= d.confidence

\* C5 witness: a detail whose largest probability is not the first class's.
C5_Witness ==
  /\ call.op = "predict_with_details"
  /\ call.res.status = "ok"
  /\ HasPredictProba(adapters[call.a])
  /\ \E i \in DOMAIN call.res.val :
       call.res.val[i].probabilities["1"] > call.res.val[i].probabilities["0"]

MatrixOf(m) == <<[j \in DOMAIN FeatureSchema |-> Float(m[FeatureSchema[j]].v)]>>

SchemaWide(raw) ==
  /\ raw.shape = "matrix"
  /\ \A i \in DOMAIN raw.rows : Len(raw.rows[i]) = Len(FeatureSchema)

\* The list of mappings that gives the values of a matrix to the schema
\* names, in schema order.
MappingsOf(raw) ==
  [shape |-> "records",
   rows |-> [i \in DOMAIN raw.rows |->
              [f \in FeatureSet |->
                 raw.rows[i][CHOOSE j \in DOMAIN FeatureSchema : FeatureSchema[j] = f]]]]

C9_FrameAndDeterminism ==
  /\ [][shared' = shared]_vars
  /\ [](call.op \in Ops =>
          call.res = Outcome(call.op, adapters[call.a], call.raw, FeatureSchema, FittedScaler))

\* C9 witness: a call that failed after the scaler and a classifier were used.
C9_Witness ==
  /\ call.op = "predict_with_details"
  /\ call.res.status = "error"
  /\ call.res.transformed
  /\ call.res.clfCalls >= 1

\* C10: under every interleaving, a finished call has the outcome it has
\* when run alone.
C10_AsIfAlone ==
  \A t \in ThreadIds : th[t].pc = "done" => th[t].out = th[t].alone

\* C10 witness: two callers finished calls on the same adapter, each after
\* scaling, one with details and one with an error.
C10_Witness ==
  \E t, u \in ThreadIds :
    /\ t # u
    /\ th[t].pc = "done" /\ th[u].pc = "done"
    /\ th[t].a = th[u].a
    /\ th[t].out.status = "ok" /\ th[t].op = "predict_with_details"
    /\ th[u].out.status = "error" /\ th[u].out.transformed

====
